---- MODULE Spec2Model ----
(***************************************************************************)
(* A model of d2go/export/api.py: convert_and_export_predictor,            *)
(* export_predictor, default_export_predictor and _export_single_model.    *)
(*                                                                         *)
(* A path is the sequence of its components ("/" first when absolute), so  *)
(* that the os.path calls of lines 174, 193, 205 and 241 are computed.     *)
(* A Python dict is the sequence of its <<key, value>> items in insertion  *)
(* order, with distinct keys.                                              *)
(***************************************************************************)
EXTENDS Integers, Sequences, FiniteSets, TLC

VARIABLES pc, entry, cfg, pytorch_model, predictor_type, output_dir,
          data_loader, inputs, export_config, model_inputs, predictor_path,
          predictor_init_kwargs, models_info, idx, log, ret, err, fs

vars == <<pc, entry, cfg, pytorch_model, predictor_type, output_dir,
          data_loader, inputs, export_config, model_inputs, predictor_path,
          predictor_init_kwargs, models_info, idx, log, ret, err, fs>>

-----------------------------------------------------------------------------
(* Bounds of the model *)

\* the data loader yields 0..MaxBatches batches
MaxBatches == 2
\* the model mapping of an export configuration has 0..MaxModels sub-models
MaxModels == 2

-----------------------------------------------------------------------------
(* Strings *)

\* the characters of the predictor types the callers use
Chars(s) ==
    CASE s = "torchscript" ->
             <<"t", "o", "r", "c", "h", "s", "c", "r", "i", "p", "t">>
      [] s = "torchscript_int8" ->
             <<"t", "o", "r", "c", "h", "s", "c", "r", "i", "p", "t", "_",
               "i", "n", "t", "8">>
      [] s = "onnx" -> <<"o", "n", "n", "x">>
      [] s = "int8" -> <<"i", "n", "t", "8">>

\* `sub in s` on Python strings
IsSubstring(sub, s) ==
    \E i \in 0..(Len(s) - Len(sub)) : SubSeq(s, i + 1, i + Len(sub)) = sub

\* line 96: "int8" in predictor_type
IsInt8(pt) == IsSubstring(Chars("int8"), Chars(pt))

-----------------------------------------------------------------------------
(* os.path (posixpath) *)

\* the process's working directory, which os.path.relpath resolves against
Cwd == <<"/", "w">>

IsAbs(p) == p # <<>> /\ p[1] = "/"

\* os.path.join(a, b)
PathJoin(a, b) == IF IsAbs(b) THEN b ELSE a \o b

RECURSIVE NormComps(_, _)
\* the component loop of posixpath.normpath for a path with a leading slash
NormComps(comps, acc) ==
    IF comps = <<>> THEN acc
    ELSE LET c == Head(comps) IN
         IF c = "" \/ c = "." THEN NormComps(Tail(comps), acc)
         ELSE IF c = ".."
              THEN NormComps(Tail(comps),
                             IF acc = <<>> THEN acc
                             ELSE SubSeq(acc, 1, Len(acc) - 1))
              ELSE NormComps(Tail(comps), Append(acc, c))

\* [x for x in os.path.abspath(p).split("/") if x]
AbsParts(p) == NormComps(Tail(IF IsAbs(p) THEN p ELSE PathJoin(Cwd, p)), <<>>)

RECURSIVE CommonLen(_, _)
\* len(os.path.commonprefix([a, b])) on lists of components
CommonLen(a, b) ==
    IF a = <<>> \/ b = <<>> \/ Head(a) # Head(b) THEN 0
    ELSE 1 + CommonLen(Tail(a), Tail(b))

\* os.path.relpath(path, start)
RelPath(path, start) ==
    LET start_list == AbsParts(start)
        path_list == AbsParts(path)
        i == CommonLen(start_list, path_list)
        rel_list == [k \in 1..(Len(start_list) - i) |-> ".."]
                    \o SubSeq(path_list, i + 1, Len(path_list))
    IN IF rel_list = <<>> THEN <<".">> ELSE rel_list

RECURSIVE Prefixes(_)
\* the directory and its ancestors, as PathManager.mkdirs creates them
Prefixes(parts) ==
    IF parts = <<>> THEN {}
    ELSE {parts} \cup Prefixes(SubSeq(parts, 1, Len(parts) - 1))

-----------------------------------------------------------------------------
(* Python values *)

PyNone == [kind |-> "none"]
PyStr(s) == [kind |-> "str", val |-> s]
PyBool(b) == [kind |-> "bool", val |-> b]
\* a dict: its items in insertion order
PyDict(items) == [kind |-> "dict", items |-> items]
\* an nn.Module and an object that is not one
Module(id) == [kind |-> "module", id |-> id]
NotModule == [kind |-> "object"]

IsNone(v) == v.kind = "none"
IsDict(v) == v.kind = "dict"
IsStr(v) == v.kind = "str"
IsModule(v) == v.kind = "module"

Keys(d) == [i \in 1..Len(d.items) |-> d.items[i][1]]
HasKey(d, k) == \E i \in 1..Len(d.items) : d.items[i][1] = k
Get(d, k) == d.items[CHOOSE i \in 1..Len(d.items) : d.items[i][1] = k][2]

\* bool(v), as `v or default` evaluates it
Truthy(v) ==
    CASE v.kind = "none" -> FALSE
      [] v.kind = "str" -> v.val # ""
      [] v.kind = "dict" -> v.items # <<>>
      [] v.kind = "bool" -> v.val
      [] OTHER -> TRUE

\* v[name] for a str key `name`: the value, or the exception raised
Subscript(v, name) ==
    CASE v.kind = "dict" ->
             IF HasKey(v, name) THEN [ok |-> TRUE, val |-> Get(v, name)]
             ELSE [ok |-> FALSE, err |-> "KeyError"]
      [] OTHER -> [ok |-> FALSE, err |-> "TypeError"]

Ok(v) == [ok |-> TRUE, val |-> v]

-----------------------------------------------------------------------------
(* The export-method registry (lines 248-286) *)

\* the keys registered by the decorators of lines 251-275
ModelExportMethodRegistry ==
    { "caffe2",
      "torchscript", "torchscript@tracing", "torchscript@scripting",
      "torchscript_int8", "torchscript_int8@tracing",
      "torchscript_int8@scripting",
      "torchscript_mobile", "torchscript_mobile_int8" }

-----------------------------------------------------------------------------
(* Inputs *)

\* predictor types: registered without int8, registered with int8, and one
\* that is no registered export method
PredictorTypes == {"torchscript", "torchscript_int8", "onnx"}
OutputDirs == {<<"out">>}
\* sub-model names: plain path components
Names == {"head", "body", "neck"}
Capabilities == {"export_predictor", "prepare_for_export",
                 "prepare_for_quant_convert"}
\* what a model's own export_predictor may return
CustomReturns == {<<"/", "custom">>, <<"out", "torchscript">>}
\* what a registered implementation's export() may do: return a dict, raise,
\* or return something that is not a dict
ExportOutcomes == {"dict", "raise", "notdict"}

\* a data loader of n batches: iter(data_loader) yields 1, 2, ..., n
Loader(n) == [i \in 1..n |-> i]
DataLoaders == {Loader(n) : n \in 0..MaxBatches}

\* the orders in which a model mapping may hold its sub-models
NameOrders ==
    { s \in UNION {[1..n -> Names] : n \in 0..MaxModels} :
        \A i, j \in 1..Len(s) : i # j => s[i] # s[j] }

\* PredictorExportConfig.model: one module, one object that is no module, or a
\* dict of sub-models (all modules, or the last one not a module)
ModelField(shape, names, bad) ==
    IF shape = "single" THEN (IF bad THEN NotModule ELSE Module(""))
    ELSE PyDict([i \in 1..Len(names) |->
                   <<names[i], IF bad /\ i = Len(names) THEN NotModule
                               ELSE Module(names[i])>>])

Bundle == PyDict(<< <<"scriptable", PyBool(TRUE)>> >>)
EmptyKwargs == PyDict(<<>>)

\* PredictorExportConfig.model_export_method: absent, one method for all, a
\* mapping with every name, a mapping without "head", the empty string
MethodChoices ==
    << PyNone,
       PyStr("caffe2"),
       PyDict(<< <<"head", PyStr("caffe2")>>, <<"body", PyStr("torchscript")>>,
                 <<"neck", PyStr("onnx")>> >>),
       PyDict(<< <<"body", PyStr("caffe2")>>, <<"neck", PyStr("caffe2")>> >>),
       PyStr("") >>

\* PredictorExportConfig.model_export_kwargs: absent, one empty bundle, one
\* bundle for all, a mapping with every name, a mapping without "head"
KwargsChoices ==
    << PyNone,
       EmptyKwargs,
       Bundle,
       PyDict(<< <<"head", Bundle>>, <<"body", EmptyKwargs>>,
                 <<"neck", Bundle>> >>),
       PyDict(<< <<"body", Bundle>>, <<"neck", EmptyKwargs>> >>) >>

\* PredictorExportConfig.data_generator: absent, or a function whose result has
\* the structure of the model field, possibly without the entry of "head"
GeneratorChoices == << "none", "full", "nohead" >>

SampleArgs(name, batch) == [kind |-> "args", for |-> name, batch |-> batch]

\* export_config.data_generator(batch)
DataGenerator(choice, model, batch) ==
    IF ~IsDict(model) THEN SampleArgs("", batch)
    ELSE LET keep == SelectSeq(model.items,
                               LAMBDA it : choice = "full" \/ it[1] # "head")
         IN PyDict([i \in 1..Len(keep) |->
                      <<keep[i][1], SampleArgs(keep[i][1], batch)>>])

\* class PredictorExportConfig (lines 54-83)
PredictorExportConfig(model, gen, method, kwargs) ==
    [model |-> model, data_generator |-> gen, model_export_method |-> method,
     model_export_kwargs |-> kwargs,
     preprocess_info |-> "IdentityPreprocess",
     postprocess_info |-> "IdentityPostprocess",
     run_func_info |-> "NaiveRunFunc"]

NoConfig == PredictorExportConfig(PyNone, "none", PyNone, PyNone)

-----------------------------------------------------------------------------
(* State *)

\* a pytorch model object: the capabilities it exposes (hasattr), whether it
\* holds normalization layers, and the operations that produced it
Model(caps, bn, ops) == [caps |-> caps, bn |-> bn, ops |-> ops]

\* a configuration node with the flags of cfg.QUANTIZATION the module reads
DefaultCfg == [QAT_ENABLED |-> FALSE, EAGER_MODE |-> FALSE]

NoReturns == [cap |-> PyNone, dep |-> PyNone, ep |-> PyNone, cep |-> PyNone]
EmptyFs == [dirs |-> {}, files |-> <<>>, artifacts |-> {}]

Init ==
    /\ pc = "idle"
    /\ entry = "none"
    /\ cfg = DefaultCfg
    /\ pytorch_model = Model({}, FALSE, <<>>)
    /\ predictor_type = ""
    /\ output_dir = <<>>
    /\ data_loader = <<>>
    /\ inputs = 0
    /\ export_config = NoConfig
    /\ model_inputs = PyNone
    /\ predictor_path = <<>>
    /\ predictor_init_kwargs = PyDict(<<>>)
    /\ models_info = <<>>
    /\ idx = 0
    /\ log = <<>>
    /\ ret = NoReturns
    /\ err = "none"
    /\ fs = EmptyFs

Locals == <<inputs, export_config, model_inputs, predictor_path,
            predictor_init_kwargs, models_info, idx>>
CallArgs == <<entry, cfg, pytorch_model, predictor_type, output_dir, data_loader>>

\* the calls made so far by the current invocation, in order, each with the
\* arguments the properties below speak of
\* raise: no function of the module catches anything, so the exception leaves
\* every active frame
Raise(e) == pc' = "raised" /\ err' = e

Logged(e) == log' = Append(log, e)

\* a caller invokes one of the module's three public functions
Invoke(f, c, m, pt, od, dl) ==
    /\ pc = "idle"
    /\ entry' = f
    /\ cfg' = c
    /\ pytorch_model' = m
    /\ predictor_type' = pt
    /\ output_dir' = od
    /\ data_loader' = dl
    /\ pc' = f
    /\ log' = << [op |-> f, model |-> m] >>
    /\ UNCHANGED <<Locals, ret, err, fs>>

-----------------------------------------------------------------------------
(* convert_and_export_predictor (lines 86-123) *)

\* what a conversion leaves of the capabilities: the object keeps its class,
\* or comes back as a plain module exposing none of them
CapsAfter(caps, keeps) == IF keeps THEN caps ELSE {}

\* lines 97-104: post-training quantization, then the assertion on
\* check_bn_exist
CEP_PostTrainingQuantize(bn, keeps) ==
    /\ pc = "convert_and_export_predictor"
    /\ IsInt8(predictor_type)
    /\ ~cfg.QAT_ENABLED
    /\ bn => pytorch_model.bn
    /\ pytorch_model' = Model(CapsAfter(pytorch_model.caps, keeps), bn,
                              Append(pytorch_model.ops, "post_training_quantize"))
    /\ log' = log \o << [op |-> "post_training_quantize",
                        model |-> pytorch_model, data_loader |-> data_loader],
                       [op |-> "check_bn_exist", result |-> bn] >>
    /\ IF bn THEN Raise("AssertionError")
       ELSE pc' = "quant_convert" /\ UNCHANGED err
    /\ UNCHANGED <<entry, cfg, predictor_type, output_dir, data_loader, Locals,
                   ret, fs>>

\* a variant that looks for the model's own conversion before the eager flag
QuantConvertOp_CapabilityFirst(c, m) ==
    IF "prepare_for_quant_convert" \in m.caps THEN "prepare_for_quant_convert"
    ELSE IF c.EAGER_MODE THEN "torch.quantization.convert"
         ELSE "convert_fx"

\* lines 106-114: which conversion is applied
QuantConvertOp(c, m) ==
    IF c.EAGER_MODE THEN "torch.quantization.convert"
    ELSE IF "prepare_for_quant_convert" \in m.caps
         THEN "prepare_for_quant_convert"
         ELSE "convert_fx"

\* a variant that converts without post-training quantization
AtQuantConvert_SkipPTQ ==
    IF pc = "convert_and_export_predictor"
    THEN IsInt8(predictor_type)
    ELSE pc = "quant_convert"

\* line 105 is reached from line 97 (QAT) or from line 104
AtQuantConvert ==
    IF pc = "convert_and_export_predictor"
    THEN IsInt8(predictor_type) /\ cfg.QAT_ENABLED
    ELSE pc = "quant_convert"

\* lines 105-116, then the call of line 123 with the converted model
CEP_QuantConvert(keeps) ==
    /\ AtQuantConvert
    /\ LET conv == QuantConvertOp(cfg, pytorch_model) IN
       /\ pytorch_model' = Model(CapsAfter(pytorch_model.caps, keeps),
                                 pytorch_model.bn,
                                 Append(pytorch_model.ops, conv))
       /\ log' = log \o << [op |-> conv, model |-> pytorch_model],
                           [op |-> "export_predictor",
                            model |-> pytorch_model'] >>
    /\ pc' = "export_predictor"
    /\ UNCHANGED <<entry, cfg, predictor_type, output_dir, data_loader, Locals,
                   ret, err, fs>>

\* lines 118-121, then the call of line 123 with the fused model
CEP_Fuse(bn, keeps) ==
    /\ pc = "convert_and_export_predictor"
    /\ ~IsInt8(predictor_type)
    /\ bn => pytorch_model.bn
    /\ pytorch_model' = Model(CapsAfter(pytorch_model.caps, keeps), bn,
                              Append(pytorch_model.ops, "fuse_model"))
    /\ log' = log \o << [op |-> "fuse_model", model |-> pytorch_model],
                       [op |-> "count_bn_exist", result |-> bn] >>
                  \o (IF bn THEN << [op |-> "warning"] >> ELSE <<>>)
                  \o << [op |-> "export_predictor", model |-> pytorch_model'] >>
    /\ pc' = "export_predictor"
    /\ UNCHANGED <<entry, cfg, predictor_type, output_dir, data_loader, Locals,
                   ret, err, fs>>

\* a variant that returns the default predictor root instead of the callee's
\* return value
CEP_Return_DefaultRoot ==
    /\ pc = "cep_return"
    /\ ret' = [ret EXCEPT
                 !.cep = PyStr(PathJoin(output_dir, <<predictor_type>>))]
    /\ pc' = "returned"
    /\ UNCHANGED <<CallArgs, Locals, log, err, fs>>

\* line 123: return what export_predictor returned
CEP_Return ==
    /\ pc = "cep_return"
    /\ ret' = [ret EXCEPT !.cep = ret.ep]
    /\ pc' = "returned"
    /\ UNCHANGED <<CallArgs, Locals, log, err, fs>>

-----------------------------------------------------------------------------
(* export_predictor (lines 126-154) *)

\* where control goes when export_predictor returns
AfterEP == IF entry = "export_predictor" THEN "returned" ELSE "cep_return"

\* a variant that tests for the wrong attribute
HasCustomExport_WrongAttr(m) == "prepare_for_export" \in m.caps

\* line 147
HasCustomExport(m) == "export_predictor" \in m.caps

\* lines 147-150: the model's own export_predictor runs and its value is
\* returned (or its exception propagates)
EP_Custom(result) ==
    /\ pc = "export_predictor"
    /\ HasCustomExport(pytorch_model)
    /\ Logged([op |-> "model.export_predictor", cfg |-> cfg,
               predictor_type |-> predictor_type, output_dir |-> output_dir,
               data_loader |-> data_loader])
    /\ IF result = <<>>
       THEN Raise("CustomExportError") /\ UNCHANGED ret
       ELSE /\ ret' = [ret EXCEPT !.cap = PyStr(result), !.ep = PyStr(result)]
            /\ pc' = AfterEP
            /\ UNCHANGED err
    /\ UNCHANGED <<CallArgs, Locals, fs>>

\* lines 151-154: the call of default_export_predictor
EP_Default ==
    /\ pc = "export_predictor"
    /\ ~HasCustomExport(pytorch_model)
    /\ Logged([op |-> "default_export_predictor", model |-> pytorch_model])
    /\ pc' = "default_export_predictor"
    /\ UNCHANGED <<CallArgs, Locals, ret, err, fs>>

\* line 152: return what default_export_predictor returned
EP_Return ==
    /\ pc = "ep_return"
    /\ ret' = [ret EXCEPT !.ep = ret.dep]
    /\ pc' = AfterEP
    /\ UNCHANGED <<CallArgs, Locals, log, err, fs>>

-----------------------------------------------------------------------------
(* _export_single_model (lines 157-175) *)

ModelInfo(path, type) == [path |-> path, type |-> type]

\* the ModelInfo returned, or the exception raised; `outcome` is what the
\* registered implementation's export() does when it is reached
ExportSingleModel(predictor_path_, model, input_args, save_path, model_export_method, model_export_kwargs, predictor_type_, outcome) ==
    IF ~IsModule(model) THEN [ok |-> FALSE, err |-> "AssertionError"]
    ELSE IF ~IsStr(model_export_method) THEN [ok |-> FALSE, err |-> "TypeError"]
    ELSE IF model_export_method.val \notin ModelExportMethodRegistry
         THEN [ok |-> FALSE, err |-> "KeyError"]
    ELSE IF ~IsDict(model_export_kwargs) THEN [ok |-> FALSE, err |-> "TypeError"]
    ELSE IF outcome = "raise" THEN [ok |-> FALSE, err |-> "ExportError"]
    ELSE IF outcome # "dict" THEN [ok |-> FALSE, err |-> "AssertionError"]
    ELSE Ok(ModelInfo(RelPath(save_path, predictor_path_), predictor_type_))

\* whether the call reaches the implementation's export() and it returns, so
\* that the artifacts are on disk at save_path
ExportWrites(model, model_export_method, model_export_kwargs, outcome) ==
    /\ IsModule(model)
    /\ IsStr(model_export_method)
    /\ model_export_method.val \in ModelExportMethodRegistry
    /\ IsDict(model_export_kwargs)
    /\ outcome # "raise"

-----------------------------------------------------------------------------
(* default_export_predictor (lines 178-245) *)

\* where control goes when default_export_predictor returns
AfterDEP ==
    IF entry = "default_export_predictor" THEN "returned" ELSE "ep_return"

\* a variant that drains the loader and keeps the last batch
FirstBatch_Last(dl) == dl[Len(dl)]

\* next(iter(data_loader)) on a loader that yields something
FirstBatch(dl) == dl[1]

\* lines 184-185: the assertion, then one batch is drawn
DEP_Draw ==
    /\ pc = "default_export_predictor"
    /\ IF "prepare_for_export" \notin pytorch_model.caps
       THEN /\ Raise("AssertionError")
            /\ UNCHANGED <<inputs, log>>
       ELSE IF data_loader = <<>>
       THEN /\ Raise("StopIteration")
            /\ Logged([op |-> "iter"])
            /\ UNCHANGED inputs
       ELSE /\ inputs' = FirstBatch(data_loader)
            /\ log' = log \o << [op |-> "iter"],
                                [op |-> "next", batch |-> FirstBatch(data_loader)] >>
            /\ pc' = "prepare_for_export"
            /\ UNCHANGED err
    /\ UNCHANGED <<CallArgs, export_config, model_inputs, predictor_path,
                   predictor_init_kwargs, models_info, idx, ret, fs>>

\* lines 186-191: the model returns its export configuration `ec`, and the
\* data generator, when there is one, is applied to the batch
DEP_Prepare(ec) ==
    /\ pc = "prepare_for_export"
    /\ export_config' = ec
    /\ IF ec.data_generator # "none"
       THEN /\ model_inputs' = DataGenerator(ec.data_generator, ec.model, inputs)
            /\ log' = log \o << [op |-> "prepare_for_export", cfg |-> cfg,
                                 batch |-> inputs,
                                 predictor_type |-> predictor_type],
                                [op |-> "data_generator", batch |-> inputs] >>
       ELSE /\ model_inputs' = PyNone
            /\ Logged([op |-> "prepare_for_export", cfg |-> cfg,
                       batch |-> inputs, predictor_type |-> predictor_type])
    /\ pc' = "mkdirs"
    /\ UNCHANGED <<CallArgs, inputs, predictor_path, predictor_init_kwargs,
                   models_info, idx, ret, err, fs>>

\* a variant that writes the manifest as soon as the root exists
DEP_Mkdirs_WritesManifest ==
    /\ pc = "mkdirs"
    /\ LET path == PathJoin(output_dir, <<predictor_type>>) IN
       /\ predictor_path' = path
       /\ fs' = [fs EXCEPT
                   !.dirs = @ \cup Prefixes(AbsParts(path)),
                   !.files = (PathJoin(path, <<"predictor_info.json">>)
                                 :> PyDict(<<>>)) @@ @]
       /\ Logged([op |-> "mkdirs", path |-> path])
    /\ predictor_init_kwargs' =
           PyDict(<< <<"preprocess_info", export_config.preprocess_info>>,
                     <<"postprocess_info", export_config.postprocess_info>>,
                     <<"run_func_info", export_config.run_func_info>> >>)
    /\ models_info' = <<>>
    /\ idx' = 1
    /\ pc' = IF IsDict(export_config.model) THEN "for" ELSE "single"
    /\ UNCHANGED <<CallArgs, inputs, export_config, model_inputs, ret, err>>

\* lines 193-203: the predictor root is created and the branch is chosen
DEP_Mkdirs ==
    /\ pc = "mkdirs"
    /\ LET path == PathJoin(output_dir, <<predictor_type>>) IN
       /\ predictor_path' = path
       /\ fs' = [fs EXCEPT !.dirs = @ \cup Prefixes(AbsParts(path))]
       /\ Logged([op |-> "mkdirs", path |-> path])
    /\ predictor_init_kwargs' =
           PyDict(<< <<"preprocess_info", export_config.preprocess_info>>,
                     <<"postprocess_info", export_config.postprocess_info>>,
                     <<"run_func_info", export_config.run_func_info>> >>)
    /\ models_info' = <<>>
    /\ idx' = 1
    /\ pc' = IF IsDict(export_config.model) THEN "for" ELSE "single"
    /\ UNCHANGED <<CallArgs, inputs, export_config, model_inputs, ret, err>>

\* a variant that applies a single export method to every sub-model
SubModelExportMethod_Broadcast(ec, name, pt) ==
    IF IsNone(ec.model_export_method) THEN Ok(PyStr(pt))
    ELSE IF IsStr(ec.model_export_method) THEN Ok(ec.model_export_method)
    ELSE Subscript(ec.model_export_method, name)

\* a variant that falls back to predictor_type for a missing key
SubModelExportMethod_Fallback(ec, name, pt) ==
    IF IsNone(ec.model_export_method) THEN Ok(PyStr(pt))
    ELSE IF IsDict(ec.model_export_method)
            /\ ~HasKey(ec.model_export_method, name)
         THEN Ok(PyStr(pt))
         ELSE Subscript(ec.model_export_method, name)

\* lines 211-215: the export method of sub-model `name`
SubModelExportMethod(ec, name, pt) ==
    IF IsNone(ec.model_export_method) THEN Ok(PyStr(pt))
    ELSE Subscript(ec.model_export_method, name)

\* lines 216-220: the export kwargs of sub-model `name`
SubModelExportKwargs(ec, name) ==
    IF IsNone(ec.model_export_kwargs) THEN Ok(EmptyKwargs)
    ELSE Subscript(ec.model_export_kwargs, name)

\* line 209: the sample inputs of sub-model `name`
SubModelInputs(mi, name) ==
    IF ~IsNone(mi) THEN Subscript(mi, name) ELSE Ok(PyNone)

\* a variant that saves every sub-model at the predictor root
SubModelSavePath_Root(root, name) == root

\* line 205
SubModelSavePath(root, name) == PathJoin(root, <<name>>)

\* lines 204-223: one iteration of the loop over export_config.model.items()
DEP_ExportSubModel(outcome) ==
    /\ pc = "for"
    /\ idx <= Len(export_config.model.items)
    /\ LET name == export_config.model.items[idx][1]
           model == export_config.model.items[idx][2]
           save_path == SubModelSavePath(predictor_path, name)
           args == SubModelInputs(model_inputs, name)
           method == SubModelExportMethod(export_config, name, predictor_type)
           kwargs == SubModelExportKwargs(export_config, name)
       IN IF ~args.ok THEN Raise(args.err) /\ UNCHANGED <<log, models_info, idx, fs>>
          ELSE IF ~method.ok
          THEN Raise(method.err) /\ UNCHANGED <<log, models_info, idx, fs>>
          ELSE IF ~kwargs.ok
          THEN Raise(kwargs.err) /\ UNCHANGED <<log, models_info, idx, fs>>
          ELSE LET info == ExportSingleModel(predictor_path, model, args.val,
                                             save_path, method.val, kwargs.val,
                                             predictor_type, outcome)
               IN /\ Logged([op |-> "_export_single_model", name |-> name,
                             model |-> model, input_args |-> args.val,
                             save_path |-> save_path,
                             model_export_method |-> method.val,
                             model_export_kwargs |-> kwargs.val,
                             predictor_type |-> predictor_type,
                             ok |-> info.ok])
                  /\ fs' = IF ExportWrites(model, method.val, kwargs.val, outcome)
                           THEN [fs EXCEPT !.artifacts = @ \cup {save_path}]
                           ELSE fs
                  /\ IF info.ok
                     THEN /\ models_info' = Append(models_info, <<name, info.val>>)
                          /\ idx' = idx + 1
                          /\ UNCHANGED <<pc, err>>
                     ELSE Raise(info.err) /\ UNCHANGED <<models_info, idx>>
    /\ UNCHANGED <<CallArgs, inputs, export_config, model_inputs, predictor_path,
                   predictor_init_kwargs, ret>>

\* line 224: the loop is over
DEP_ModelsInfo ==
    /\ pc = "for"
    /\ idx > Len(export_config.model.items)
    /\ predictor_init_kwargs' =
           PyDict(Append(predictor_init_kwargs.items,
                         <<"models", PyDict(models_info)>>))
    /\ pc' = "write"
    /\ UNCHANGED <<CallArgs, inputs, export_config, model_inputs, predictor_path,
                   models_info, idx, log, ret, err, fs>>

\* line 232
SingleExportMethod(ec, pt) ==
    IF Truthy(ec.model_export_method) THEN ec.model_export_method ELSE PyStr(pt)

\* line 233
SingleExportKwargs(ec) ==
    IF Truthy(ec.model_export_kwargs) THEN ec.model_export_kwargs
    ELSE EmptyKwargs

\* a variant that saves the single model in a sub-directory
SingleSavePath_SubDir(root) == PathJoin(root, <<"model">>)

\* line 226
SingleSavePath(root) == root

\* lines 226-236: the single-model branch
DEP_ExportSingle(outcome) ==
    /\ pc = "single"
    /\ LET save_path == SingleSavePath(predictor_path)
           method == SingleExportMethod(export_config, predictor_type)
           kwargs == SingleExportKwargs(export_config)
           info == ExportSingleModel(predictor_path, export_config.model,
                                     model_inputs, save_path, method, kwargs,
                                     predictor_type, outcome)
       IN /\ Logged([op |-> "_export_single_model", name |-> "",
                     model |-> export_config.model, input_args |-> model_inputs,
                     save_path |-> save_path, model_export_method |-> method,
                     model_export_kwargs |-> kwargs,
                     predictor_type |-> predictor_type, ok |-> info.ok])
          /\ fs' = IF ExportWrites(export_config.model, method, kwargs, outcome)
                   THEN [fs EXCEPT !.artifacts = @ \cup {save_path}]
                   ELSE fs
          /\ IF info.ok
             THEN /\ predictor_init_kwargs' =
                         PyDict(Append(predictor_init_kwargs.items,
                                       <<"model", info.val>>))
                  /\ pc' = "write"
                  /\ UNCHANGED err
             ELSE Raise(info.err) /\ UNCHANGED predictor_init_kwargs
    /\ UNCHANGED <<CallArgs, inputs, export_config, model_inputs, predictor_path,
                   models_info, idx, ret>>

\* line 241
ManifestPath(root) == PathJoin(root, <<"predictor_info.json">>)

\* lines 238-245: the manifest is written and the predictor root returned
DEP_WriteManifest ==
    /\ pc = "write"
    /\ fs' = [fs EXCEPT !.files = (ManifestPath(predictor_path)
                                     :> predictor_init_kwargs) @@ @]
    /\ Logged([op |-> "write", path |-> ManifestPath(predictor_path)])
    /\ ret' = [ret EXCEPT !.dep = PyStr(predictor_path)]
    /\ pc' = AfterDEP
    /\ UNCHANGED <<CallArgs, Locals, err>>

-----------------------------------------------------------------------------
(* Specifications *)

EntryPoints == {"convert_and_export_predictor", "export_predictor",
                "default_export_predictor"}

\* the model's prepare_for_export returns one of the export configurations
\* built from the given choices
Prepare(shapes, orders, methods, kwargss, generators, bads) ==
    /\ pc = "prepare_for_export"
    /\ \E shape \in shapes, names \in orders, bad \in bads,
          m \in methods, k \in kwargss, g \in generators :
           /\ shape = "single" => names = <<>>
           /\ (shape = "dict" /\ bad) => names # <<>>
           /\ DEP_Prepare(PredictorExportConfig(ModelField(shape, names, bad),
                                                GeneratorChoices[g],
                                                MethodChoices[m],
                                                KwargsChoices[k]))

\* the caller has its result (or the exception) and calls again; the files
\* written so far stay
Again ==
    /\ pc \in {"returned", "raised"}
    /\ pc' = "idle"
    /\ entry' = "none"
    /\ cfg' = DefaultCfg
    /\ pytorch_model' = Model({}, FALSE, <<>>)
    /\ predictor_type' = ""
    /\ output_dir' = <<>>
    /\ data_loader' = <<>>
    /\ inputs' = 0
    /\ export_config' = NoConfig
    /\ model_inputs' = PyNone
    /\ predictor_path' = <<>>
    /\ predictor_init_kwargs' = PyDict(<<>>)
    /\ models_info' = <<>>
    /\ idx' = 0
    /\ log' = <<>>
    /\ ret' = NoReturns
    /\ err' = "none"
    /\ UNCHANGED fs

ConvertSteps ==
    \/ \E bn, keeps \in BOOLEAN : CEP_PostTrainingQuantize(bn, keeps)
    \/ \E keeps \in BOOLEAN : CEP_QuantConvert(keeps)
    \/ \E bn, keeps \in BOOLEAN : CEP_Fuse(bn, keeps)
    \/ CEP_Return
    \/ \E r \in CustomReturns \cup {<<>>} : EP_Custom(r)
    \/ EP_Default
    \/ EP_Return

ExportSteps ==
    \/ DEP_Draw
    \/ DEP_Mkdirs
    \/ \E o \in ExportOutcomes : DEP_ExportSubModel(o)
    \/ DEP_ModelsInfo
    \/ \E o \in ExportOutcomes : DEP_ExportSingle(o)
    \/ DEP_WriteManifest

\* Spec: one call of any of the three functions, with any configuration flags
\* and any model, whose prepare_for_export returns a single model or a mapping
\* of at most one sub-model, with defaults for the rest
InvokeAny ==
    /\ pc = "idle"
    /\ \E f \in EntryPoints, qat, eager, bn \in BOOLEAN,
          caps \in SUBSET Capabilities, pt \in PredictorTypes,
          od \in OutputDirs, dl \in DataLoaders :
           Invoke(f, [QAT_ENABLED |-> qat, EAGER_MODE |-> eager],
                  Model(caps, bn, <<>>), pt, od, dl)

Next ==
    \/ InvokeAny
    \/ Prepare({"single", "dict"}, {s \in NameOrders : Len(s) <= 1}, {1}, {1},
               {1, 2}, {FALSE})
    \/ ConvertSteps
    \/ ExportSteps

Spec == Init /\ [][Next]_vars

\* SpecExport: one call of default_export_predictor, with every export
\* configuration
InvokeDefault ==
    /\ pc = "idle"
    /\ \E caps \in SUBSET {"prepare_for_export"}, pt \in PredictorTypes,
          od \in OutputDirs, dl \in DataLoaders :
           Invoke("default_export_predictor", DefaultCfg,
                  Model(caps, FALSE, <<>>), pt, od, dl)

NextExport ==
    \/ InvokeDefault
    \/ Prepare({"single", "dict"}, NameOrders, 1..Len(MethodChoices),
               1..Len(KwargsChoices), 1..Len(GeneratorChoices), BOOLEAN)
    \/ ExportSteps

SpecExport == Init /\ [][NextExport]_vars

\* SpecSeq: any number of calls of default_export_predictor, one after the
\* other, to the same predictor root
InvokeSame ==
    /\ pc = "idle"
    /\ \E dl \in DataLoaders :
           Invoke("default_export_predictor", DefaultCfg,
                  Model({"prepare_for_export"}, FALSE, <<>>), "torchscript",
                  <<"out">>, dl)

NextSeq ==
    \/ InvokeSame
    \/ Prepare({"single", "dict"}, {<<>>, <<"body", "head">>}, {1, 4}, {1}, {1},
               {FALSE})
    \/ ExportSteps
    \/ Again

SpecSeq == Init /\ [][NextSeq]_vars

-----------------------------------------------------------------------------
(* Properties of default_export_predictor, under SpecExport *)

Events(op) == {i \in 1..Len(log) : log[i].op = op}
Count(op) == Cardinality(Events(op))

\* the calls of _export_single_model made so far, in order
ExportEvents == SelectSeq(log, LAMBDA e : e.op = "_export_single_model")

\* the manifest has been written by the current call
Written == Events("write") # {}

PredictorRoot == output_dir \o <<predictor_type>>
ManifestFile == PredictorRoot \o <<"predictor_info.json">>
HasManifest == ManifestFile \in DOMAIN fs.files

\* the export configuration is a mapping of sub-models
MappingCase == IsDict(export_config.model)
\* the export configuration is a single model
SingleCase ==
    Events("prepare_for_export") # {} /\ ~IsDict(export_config.model)

SubModelNames == Keys(export_config.model)

\* the iterations of the loop that have run: those before idx, and the one
\* the call raised in
Processed ==
    IF MappingCase
    THEN {i \in 1..Len(SubModelNames) : i < idx \/ (i = idx /\ pc = "raised")}
    ELSE {}

\* the data generator gave sample inputs for the sub-model, or there is none
HasInputs(name) == IsNone(model_inputs) \/ HasKey(model_inputs, name)

\* C3: an empty data loader fails the call before any effect: nothing is
\* created, prepare_for_export and the single-model exporter are not called and
\* no manifest is written; the batch is drawn before the predictor root is
\* created; a non-empty loader is drawn from once, its first batch, and that
\* batch goes to prepare_for_export and to the data generator.
C3_EmptyLoaderFailsFirst ==
    /\ (data_loader = <<>> /\ Events("iter") # {}) =>
          /\ pc = "raised" /\ err = "StopIteration"
          /\ fs = EmptyFs
          /\ \A op \in {"next", "prepare_for_export", "data_generator",
                        "mkdirs", "_export_single_model", "write"} :
                Events(op) = {}
    /\ err = "StopIteration" => data_loader = <<>>
    /\ \A j \in Events("mkdirs") : \E i \in Events("next") : i < j
    /\ fs # EmptyFs => Events("next") # {}
    /\ data_loader # <<>> =>
          /\ Count("iter") <= 1 /\ Count("next") = Count("iter")
          /\ \A i \in Events("next") \cup Events("prepare_for_export")
                      \cup Events("data_generator") :
                log[i].batch = data_loader[1]
          /\ \A i \in Events("data_generator") :
                log[i - 1].op = "prepare_for_export"

C3_Witness ==
    pc = "raised" /\ err = "StopIteration" /\ data_loader = <<>>

\* C4 as stated: in the mapping case the exporter of sub-model `name` gets
\* model_export_method[name] from a mapping, else the single value when there
\* is one, else predictor_type, and the kwargs likewise (empty when absent),
\* for every combination of absent, single value and mapping.
IsPerModel(v) ==
    /\ IsDict(v)
    /\ v.items # <<>>
    /\ \A j \in 1..Len(v.items) : v.items[j][2].kind \in {"dict", "str"}

ClaimedMethod(name) ==
    LET m == export_config.model_export_method IN
    IF IsDict(m) THEN Get(m, name) ELSE IF IsNone(m) THEN PyStr(predictor_type)
    ELSE m

ClaimedKwargs(name) ==
    LET k == export_config.model_export_kwargs IN
    IF IsPerModel(k) THEN Get(k, name) ELSE IF IsNone(k) THEN EmptyKwargs ELSE k

C4_AsClaimed ==
    \A i \in Processed :
        LET name == SubModelNames[i]
            m == export_config.model_export_method
            k == export_config.model_export_kwargs
        IN (/\ HasInputs(name)
            /\ IsDict(m) => HasKey(m, name)
            /\ IsPerModel(k) => HasKey(k, name))
           => /\ Len(ExportEvents) >= i
              /\ ExportEvents[i].model_export_method = ClaimedMethod(name)
              /\ ExportEvents[i].model_export_kwargs = ClaimedKwargs(name)

\* C4 amended: in the mapping case the exporter of sub-model `name` gets
\* predictor_type when model_export_method is absent and
\* model_export_method[name] when it is a mapping with that key; a single
\* string is indexed by the name too, which raises TypeError before the
\* sub-model is exported.  The kwargs are the empty mapping when absent and
\* model_export_kwargs[name] otherwise, a missing-key error when the value
\* given (a per-sub-model mapping or a single bundle) has no such key.
C4_Amended ==
    \A i \in Processed :
        LET name == SubModelNames[i]
            m == export_config.model_export_method
            k == export_config.model_export_kwargs
        IN HasInputs(name) =>
           IF IsStr(m) THEN Len(ExportEvents) < i /\ err = "TypeError"
           ELSE IF IsDict(m) /\ ~HasKey(m, name)
           THEN Len(ExportEvents) < i /\ err = "KeyError"
           ELSE IF IsDict(k) /\ ~HasKey(k, name)
           THEN Len(ExportEvents) < i /\ err = "KeyError"
           ELSE /\ Len(ExportEvents) >= i
                /\ ExportEvents[i].model_export_method =
                       (IF IsNone(m) THEN PyStr(predictor_type) ELSE Get(m, name))
                /\ ExportEvents[i].model_export_kwargs =
                       (IF IsNone(k) THEN EmptyKwargs ELSE Get(k, name))

C4_Witness ==
    /\ MappingCase /\ Written /\ Len(SubModelNames) = 2
    /\ IsDict(export_config.model_export_method)
    /\ IsDict(export_config.model_export_kwargs)
    /\ ExportEvents[2].model_export_method # PyStr(predictor_type)

\* C5: in the mapping case, once the manifest is written it has the key
\* `models` and not `model`, with exactly the keys of the model mapping; the
\* single-model exporter was called once per sub-model, in insertion order,
\* with save path predictor_root/name; each entry has path `name` and type
\* predictor_type, whatever the export method.
C5_MappingManifest ==
    (MappingCase /\ Written) =>
        /\ HasManifest
        /\ LET manifest == fs.files[ManifestFile] IN
           /\ HasKey(manifest, "models") /\ ~HasKey(manifest, "model")
           /\ Keys(Get(manifest, "models")) = SubModelNames
           /\ \A i \in 1..Len(SubModelNames) :
                 Get(Get(manifest, "models"), SubModelNames[i])
                     = [path |-> <<SubModelNames[i]>>, type |-> predictor_type]
        /\ Len(ExportEvents) = Len(SubModelNames)
        /\ \A i \in 1..Len(SubModelNames) :
              /\ ExportEvents[i].name = SubModelNames[i]
              /\ ExportEvents[i].save_path = PredictorRoot \o <<SubModelNames[i]>>
              /\ ExportEvents[i].ok

C5_Witness ==
    /\ MappingCase /\ Written /\ Len(SubModelNames) = 2
    /\ ExportEvents[1].model_export_method # PyStr(predictor_type)

\* C6: in the single-model case the single-model exporter is called once, with
\* the predictor root as save path, the configured export method (or
\* predictor_type when none is given, an empty one counting as none) and the
\* configured kwargs (or the empty mapping); the manifest has the key `model` and not `models`, its path is
\* the predictor root itself and its type predictor_type; the call returns
\* output_dir/predictor_type.
C6_SingleManifest ==
    SingleCase =>
        LET m == export_config.model_export_method
            k == export_config.model_export_kwargs
        IN /\ Len(ExportEvents) = (IF pc \in {"mkdirs", "single"} THEN 0 ELSE 1)
           /\ \A i \in 1..Len(ExportEvents) :
                 /\ ExportEvents[i].save_path = PredictorRoot
                 /\ ExportEvents[i].model_export_method =
                        (IF IsNone(m) \/ m = PyStr("")
                         THEN PyStr(predictor_type) ELSE m)
                 /\ ExportEvents[i].model_export_kwargs =
                        (IF IsNone(k) THEN EmptyKwargs ELSE k)
           /\ Written =>
                 /\ HasManifest
                 /\ HasKey(fs.files[ManifestFile], "model")
                 /\ ~HasKey(fs.files[ManifestFile], "models")
                 /\ Get(fs.files[ManifestFile], "model")
                        = [path |-> <<".">>, type |-> predictor_type]
                 /\ fs.artifacts = {PredictorRoot}
           /\ pc = "returned" => Written /\ ret.dep = PyStr(PredictorRoot)

C6_Witness ==
    /\ SingleCase /\ pc = "returned"
    /\ export_config.model_export_method = PyStr("caffe2")
    /\ predictor_type = "torchscript_int8"

\* the sub-models whose name the model_export_method mapping or the
\* model_export_kwargs mapping lacks
MissingKey ==
    {i \in 1..Len(SubModelNames) :
        \/ /\ IsDict(export_config.model_export_method)
           /\ ~HasKey(export_config.model_export_method, SubModelNames[i])
        \/ /\ IsDict(export_config.model_export_kwargs)
           /\ ~HasKey(export_config.model_export_kwargs, SubModelNames[i])}

\* C7: in the mapping case, when the model_export_method or model_export_kwargs
\* mapping lacks the name of a sub-model, the call raises a missing-key error
\* at that sub-model's lookup; that sub-model and the later ones are not
\* exported, the call does not return and writes no manifest.
C7_KeyMismatch ==
    (MappingCase /\ MissingKey # {}) =>
        LET first == CHOOSE i \in MissingKey : \A j \in MissingKey : i <= j IN
        /\ idx <= first
        /\ Len(ExportEvents) < first
        /\ \A e \in 1..Len(ExportEvents) :
              \A j \in first..Len(SubModelNames) :
                  ExportEvents[e].name # SubModelNames[j]
        /\ ~Written /\ ~HasManifest
        /\ pc \notin {"write", "returned"} /\ IsNone(ret.dep)
        /\ (/\ idx = first
            /\ pc # "for"
            /\ ~IsStr(export_config.model_export_method))
           => pc = "raised" /\ err = "KeyError"

C7_Witness ==
    /\ MappingCase /\ MissingKey = {2}
    /\ pc = "raised" /\ err = "KeyError" /\ idx = 2
    /\ Len(ExportEvents) = 1 /\ ExportEvents[1].ok

-----------------------------------------------------------------------------
(* Manifest as completion marker, under SpecSeq *)

AllSubModelsExported ==
    /\ \A i \in 1..Len(ExportEvents) : ExportEvents[i].ok
    /\ Len(ExportEvents) = (IF MappingCase THEN Len(SubModelNames) ELSE 1)

\* the call has failed after the predictor root was set up: a sub-model export
\* or a per-sub-model lookup raised
FailedPartway == pc = "raised" /\ Events("mkdirs") # {}

\* C2 as stated: after a call that fails partway, the predictor root holds no
\* predictor_info.json, whatever calls came before.
C2_AsClaimed == FailedPartway => ~HasManifest

\* C2 amended: a call that fails writes no manifest and leaves the one on disk
\* as it was; the manifest changes only in the last step of a call that
\* exported every sub-model.  So a failed export into a root without a
\* manifest leaves none, and a manifest written by an earlier complete call to
\* the same root is still there after a later call failed partway.
C2_Amended ==
    [][ /\ pc' = "raised" => fs'.files = fs.files
        /\ fs'.files # fs.files =>
              /\ pc = "write" /\ pc' = "returned"
              /\ AllSubModelsExported
              /\ DOMAIN fs'.files = DOMAIN fs.files \cup {ManifestFile}
              /\ ret'.dep = PyStr(PredictorRoot) ]_vars

C2_Witness ==
    /\ FailedPartway /\ HasManifest
    /\ Len(ExportEvents) = 1 /\ ExportEvents[1].ok /\ Len(SubModelNames) = 2

-----------------------------------------------------------------------------
(* Properties of export_predictor and convert_and_export_predictor, under    *)
(* Spec                                                                      *)

ConvertOps == {"torch.quantization.convert", "prepare_for_quant_convert",
               "convert_fx"}
ConvertEvents == {i \in 1..Len(log) : log[i].op \in ConvertOps}

\* the calls default_export_predictor makes
DefaultEffects ==
    {i \in 1..Len(log) :
        log[i].op \in {"iter", "next", "prepare_for_export", "data_generator",
                       "mkdirs", "_export_single_model", "write"}}

\* C1: export_predictor calls the model's own export_predictor, when the model
\* exposes one, exactly once with (cfg, predictor_type, output_dir,
\* data_loader), never default_export_predictor (no batch drawn, no directory,
\* no manifest), and returns its value; otherwise it calls
\* default_export_predictor exactly once and returns its result.
C1_Dispatch ==
    \A i \in Events("export_predictor") :
        LET dispatched == pc # "export_predictor" IN
        IF "export_predictor" \in log[i].model.caps
        THEN /\ Count("model.export_predictor") = (IF dispatched THEN 1 ELSE 0)
             /\ \A j \in Events("model.export_predictor") :
                   /\ j = i + 1
                   /\ log[j].cfg = cfg
                   /\ log[j].predictor_type = predictor_type
                   /\ log[j].output_dir = output_dir
                   /\ log[j].data_loader = data_loader
             /\ Count("default_export_predictor") = 0
             /\ DefaultEffects = {}
             /\ fs = EmptyFs
             /\ IsNone(ret.dep)
             /\ pc \in {"cep_return", "returned"} =>
                   ~IsNone(ret.cap) /\ ret.ep = ret.cap
        ELSE /\ Count("model.export_predictor") = 0
             /\ IsNone(ret.cap)
             /\ Count("default_export_predictor") = (IF dispatched THEN 1 ELSE 0)
             /\ \A j \in Events("default_export_predictor") :
                   j = i + 1 /\ log[j].model = log[i].model
             /\ pc \in {"cep_return", "returned"} =>
                   ~IsNone(ret.dep) /\ ret.ep = ret.dep

C1_Witness ==
    /\ entry = "export_predictor" /\ pc = "returned"
    /\ ret.ep = PyStr(<<"/", "custom">>)

CEP == "convert_and_export_predictor"

\* C8: with "int8" in predictor_type and QAT off, post-training quantization
\* is called with the data loader before any conversion, and when
\* normalization layers remain the call fails with the assertion before any
\* conversion and before export_predictor; with QAT on, neither post-training
\* quantization nor the normalization check runs.
C8_Int8Ordering ==
    (entry = CEP /\ predictor_type = "torchscript_int8") =>
        IF ~cfg.QAT_ENABLED
        THEN /\ Count("post_training_quantize") = (IF pc = CEP THEN 0 ELSE 1)
             /\ Count("check_bn_exist") = Count("post_training_quantize")
             /\ \A i \in Events("post_training_quantize") :
                   /\ i = 2
                   /\ log[i].data_loader = data_loader
                   /\ log[i].model = log[1].model
                   /\ log[i + 1].op = "check_bn_exist"
             /\ \A j \in ConvertEvents :
                   \E i \in Events("post_training_quantize") : i < j
             /\ \A i \in Events("check_bn_exist") :
                   IF log[i].result
                   THEN /\ pc = "raised" /\ err = "AssertionError"
                        /\ ConvertEvents = {}
                        /\ Events("export_predictor") = {}
                        /\ Len(log) = i
                        /\ fs = EmptyFs
                        /\ IsNone(ret.ep) /\ IsNone(ret.cep)
                   ELSE pc # "quant_convert" => ConvertEvents # {}
        ELSE /\ Events("post_training_quantize") = {}
             /\ Events("check_bn_exist") = {}
             /\ pc # CEP => ConvertEvents # {}

C8_Witness ==
    /\ entry = CEP /\ predictor_type = "torchscript_int8"
    /\ pc = "raised" /\ err = "AssertionError"
    /\ Count("post_training_quantize") = 1

\* C9: without "int8" in predictor_type the model is fused, nothing is
\* quantized or converted, and whether or not normalization layers remain (a
\* warning when they do) export_predictor is called exactly once with the
\* fused model and its return value is returned unchanged.
C9_NonInt8NeverFatal ==
    (entry = CEP /\ predictor_type \in {"torchscript", "onnx"}) =>
        /\ Events("post_training_quantize") = {}
        /\ Events("check_bn_exist") = {}
        /\ ConvertEvents = {}
        /\ pc # CEP =>
              /\ Count("fuse_model") = 1
              /\ log[2].op = "fuse_model" /\ log[2].model = log[1].model
              /\ log[3].op = "count_bn_exist"
              /\ Count("warning") = (IF log[3].result THEN 1 ELSE 0)
              /\ Count("export_predictor") = 1
              /\ \A i \in Events("export_predictor") :
                    /\ i = (IF log[3].result THEN 5 ELSE 4)
                    /\ log[i].model.ops = <<"fuse_model">>
                    /\ log[i].model.bn = log[3].result
              /\ err = "AssertionError" =>
                    Events("default_export_predictor") # {}
        /\ pc = "cep_return" => ~IsNone(ret.ep)
        /\ pc = "returned" => ~IsNone(ret.ep) /\ ret.cep = ret.ep

C9_Witness ==
    /\ entry = CEP /\ predictor_type = "torchscript" /\ pc = "returned"
    /\ Count("warning") = 1
    /\ ret.cep = PyStr(<<"/", "custom">>)

\* C10: on the int8 path exactly one conversion is applied: the eager
\* quantize-convert when EAGER_MODE is set, else the model's own
\* prepare_for_quant_convert when it has one, else convert_fx; the model
\* passed to export_predictor is the result of that conversion.
C10_ConvertSelection ==
    (entry = CEP /\ predictor_type = "torchscript_int8") =>
        /\ Cardinality(ConvertEvents) <= 1
        /\ \A j \in ConvertEvents :
              /\ log[j].op =
                     (IF cfg.EAGER_MODE THEN "torch.quantization.convert"
                      ELSE IF "prepare_for_quant_convert" \in log[j].model.caps
                           THEN "prepare_for_quant_convert"
                           ELSE "convert_fx")
              /\ log[j].model.ops =
                     (IF cfg.QAT_ENABLED THEN <<>>
                      ELSE <<"post_training_quantize">>)
              /\ log[j + 1].op = "export_predictor"
        /\ Count("export_predictor") = Cardinality(ConvertEvents)
        /\ \A i \in Events("export_predictor") :
              /\ log[i - 1].op \in ConvertOps
              /\ log[i].model.ops = Append(log[i - 1].model.ops, log[i - 1].op)
              /\ log[i].model # log[1].model
        /\ pc \notin {CEP, "quant_convert"} =>
              (Cardinality(ConvertEvents) = 1 \/ err = "AssertionError")

C10_Witness ==
    /\ entry = CEP /\ predictor_type = "torchscript_int8"
    /\ cfg.EAGER_MODE /\ "prepare_for_quant_convert" \in log[1].model.caps
    /\ Count("export_predictor") = 1
    /\ pc = "returned"
====
